---------------------------- MODULE Spec2Model ----------------------------
(***************************************************************************)
(* A model of the modular DFA editor and simulator: BaseAutomaton          *)
(* (src/baseAutomaton.js), its DFASimulator subclass and the               *)
(* AutomatonDataManager (src/unnamed/part_000).                            *)
(*                                                                         *)
(* JavaScript objects are modelled by a heap: a state object is a          *)
(* reference (a positive integer) into stateObjs, which holds its id,      *)
(* isFinal and label fields (the label `q${n}` is the pair <<"q", n>>);    *)
(* `states` is the array of references.  A reference that                  *)
(* is no longer in `states` is a detached object that other fields         *)
(* (a transition's from/to, transitionSource, pendingTransitionData) may   *)
(* still hold.  A transition object is identified by its id, the unique    *)
(* token Date.now() + Math.random().  Strings are sequences of             *)
(* one-character strings, so that trim, split and join are computed.       *)
(* Coordinates, renaming and the drawing fields other than `offset` (the   *)
(* only one the handlers branch on) are not modelled.                      *)
(***************************************************************************)
EXTENDS Integers, Sequences, FiniteSets, TLC

VARIABLES
    states,                 \* this.states: array of state references
    stateObjs,              \* the heap: reference -> [id, isFinal]
    transitions,            \* this.transitions: array of transition records
    startState,             \* this.startState: reference, NULL or UNDEFINED
    selectedState,          \* this.selectedState: reference or NULL
    selectedTransition,     \* this.selectedTransition: transition id or NULL
    transitionSource,       \* this.transitionSource: reference or NULL
    mode,                   \* this.mode
    stateCounter,           \* this.stateCounter
    lastClickTarget,        \* this.lastClickTarget
    pendingTransitionData,  \* this.pendingTransitionData
    transitionModal,        \* transitionModal.style.display = 'block'
    alertMsg,               \* what the last handler told the user
    resultText,             \* the result element written by testString
    debugMode,              \* this.debugMode
    debugString,            \* this.debugString
    debugSteps,             \* this.debugSteps
    currentDebugStep,       \* this.currentDebugStep
    nextTransitionId,       \* the next fresh transition id
    acceptInput,            \* the value of the acceptInput text area
    rejectInput,            \* the value of the rejectInput text area
    bulkResults             \* the bulkResults element: shown, results

modelVars == <<states, stateObjs, transitions, startState, stateCounter>>

uiVars == <<selectedState, selectedTransition, transitionSource, mode,
            lastClickTarget, pendingTransitionData, transitionModal>>

debugVars == <<debugMode, debugString, debugSteps, currentDebugStep>>

bulkVars == <<acceptInput, rejectInput, bulkResults>>

vars == <<states, stateObjs, transitions, startState, stateCounter,
          selectedState, selectedTransition, transitionSource, mode,
          lastClickTarget, pendingTransitionData, transitionModal,
          alertMsg, resultText,
          debugMode, debugString, debugSteps, currentDebugStep,
          nextTransitionId, acceptInput, rejectInput, bulkResults>>

(***************************************************************************)
(* Bounds of the model.                                                    *)
(***************************************************************************)
\* State objects ever allocated in one behaviour.
MaxObjects == 2
\* Transition objects ever allocated in one behaviour.
MaxTransitions == 2
\* Longest test input, in characters.
MaxInputLen == 2

NULL == 0
UNDEFINED == 0 - 1

(***************************************************************************)
(* Strings.                                                                *)
(***************************************************************************)
\* The whitespace String.prototype.trim removes (the model's alphabet has one).
IsWhitespace(c) == c = " "

RECURSIVE TrimStart(_)
TrimStart(s) ==
    IF s # <<>> /\ IsWhitespace(Head(s)) THEN TrimStart(Tail(s)) ELSE s

RECURSIVE TrimEnd(_)
TrimEnd(s) ==
    IF s # <<>> /\ IsWhitespace(s[Len(s)])
    THEN TrimEnd(SubSeq(s, 1, Len(s) - 1))
    ELSE s

\* String.prototype.trim
Trim(s) == TrimEnd(TrimStart(s))

\* String.prototype.split(','): the pieces between the commas, empty ones kept.
RECURSIVE SplitFrom(_, _, _)
SplitFrom(s, i, piece) ==
    IF i > Len(s) THEN <<piece>>
    ELSE IF s[i] = "," THEN <<piece>> \o SplitFrom(s, i + 1, <<>>)
    ELSE SplitFrom(s, i + 1, Append(piece, s[i]))

Split(s) == SplitFrom(s, 1, <<>>)

\* Array.prototype.map(s => s.trim())
MapTrim(pieces) == [i \in 1..Len(pieces) |-> Trim(pieces[i])]

\* Array.prototype.filter(s => s.length > 0)
FilterNonEmpty(pieces) == SelectSeq(pieces, LAMBDA p : Len(p) > 0)

\* Array.prototype.join(', ')
RECURSIVE Join(_)
Join(pieces) ==
    IF pieces = <<>> THEN <<>>
    ELSE IF Len(pieces) = 1 THEN pieces[1]
    ELSE pieces[1] \o <<",", " ">> \o Join(Tail(pieces))

\* Array.prototype.includes
Includes(seq, x) == \E i \in 1..Len(seq) : seq[i] = x

\* t.symbol.split(',').map(s => s.trim())
SymbolsOf(symbol) == MapTrim(Split(symbol))

\* Array.prototype.find: the index of the first element satisfying Test, 0 for none.
FindIndex(seq, Test(_)) ==
    IF \E i \in 1..Len(seq) : Test(seq[i])
    THEN CHOOSE i \in 1..Len(seq) :
            Test(seq[i]) /\ \A j \in 1..(i - 1) : ~Test(seq[j])
    ELSE 0


(***************************************************************************)
(* The heap and the arrays.                                                *)
(***************************************************************************)
\* state.id and state.isFinal of the object a reference names.
IdOf(ref) == stateObjs[ref].id

IsFinalOf(ref) == stateObjs[ref].isFinal

Booleans == {TRUE, FALSE}

\* A JavaScript reference used as a condition: null and undefined are falsy.
Truthy(ref) == ref # NULL /\ ref # UNDEFINED

Elems(seq) == {seq[i] : i \in 1..Len(seq)}

TransitionIds == {transitions[i].id : i \in 1..Len(transitions)}

\* The transition object with the given id, which must be in the array.
TransitionById(tid) ==
    transitions[CHOOSE i \in 1..Len(transitions) : transitions[i].id = tid]

\* pendingTransitionData = null
NoPending == [from |-> NULL, to |-> NULL, editingTransition |-> NULL]

\* lastClickTarget = null
NoTarget == [state |-> NULL, transition |-> NULL]

(***************************************************************************)
(* Messages shown to the user.                                             *)
(***************************************************************************)
NoAlert == "none"
\* The result element before any test: no verdict, no input
NoResult == <<"none", <<>>>>
AlertEnterSymbol == "Please enter at least one transition symbol!"
AlertValidSymbols == "Please enter valid symbols!"
AlertOneCharacter == "Each symbol must be exactly one character!"
AlertDfaRule == "DFA rule violation"
AlertAllExist == "All symbols already exist for this transition!"
AlertSelectState == "Please select a state first!"
AlertNoStartState == "No start state defined!"

\* The bulkResults element before runBulkTest has written it.
NoBulkResults == [shown |-> FALSE, results |-> <<>>]

(***************************************************************************)
(* The initial state: the fields the constructor sets.                     *)
(***************************************************************************)
Init ==
    /\ states = <<>>
    /\ stateObjs = <<>>
    /\ transitions = <<>>
    /\ startState = NULL
    /\ selectedState = NULL
    /\ selectedTransition = NULL
    /\ transitionSource = NULL
    /\ mode = "state"
    /\ stateCounter = 0
    /\ lastClickTarget = NoTarget
    /\ pendingTransitionData = NoPending
    /\ transitionModal = FALSE
    /\ alertMsg = NoAlert
    /\ resultText = NoResult
    /\ debugMode = FALSE
    /\ debugString = <<>>
    /\ debugSteps = <<>>
    /\ currentDebugStep = 0 - 1
    /\ nextTransitionId = 1
    /\ acceptInput = <<>>
    /\ rejectInput = <<>>
    /\ bulkResults = NoBulkResults

(***************************************************************************)
(* BaseAutomaton: state management.                                        *)
(***************************************************************************)
\* addState making the new state the start state whenever none is set
AddStateStartIfUnset ==
    LET ref == Len(stateObjs) + 1 IN
    /\ Len(stateObjs) < MaxObjects
    /\ stateObjs' = Append(stateObjs,
                            [id |-> stateCounter, isFinal |-> FALSE,
                             label |-> <<"q", stateCounter>>])
    /\ stateCounter' = stateCounter + 1
    /\ states' = Append(states, ref)
    /\ selectedState' = ref
    /\ startState' = IF ~Truthy(startState) THEN ref ELSE startState

\* addState(x, y)
AddState ==
    LET ref == Len(stateObjs) + 1 IN
    /\ Len(stateObjs) < MaxObjects
    /\ stateObjs' = Append(stateObjs,
                            [id |-> stateCounter, isFinal |-> FALSE,
                             label |-> <<"q", stateCounter>>])
    /\ stateCounter' = stateCounter + 1
    /\ states' = Append(states, ref)
    /\ selectedState' = ref
    /\ startState' = IF Len(states) + 1 = 1 THEN ref ELSE startState

\* this.states.filter(s => s.id !== state.id)
StatesWithout(state) == SelectSeq(states, LAMBDA s : IdOf(s) # IdOf(state))

\* this.transitions.filter(t => t.from.id !== state.id && t.to.id !== state.id)
TransitionsWithoutState(state) ==
    SelectSeq(transitions,
              LAMBDA t : IdOf(t.from) # IdOf(state) /\ IdOf(t.to) # IdOf(state))

\* deleteState without `this.startState = null`
StartStateKept(state) == startState

\* startState after deleteState(state)
StartStateAfterDelete(state) ==
    IF Truthy(startState) /\ IdOf(startState) = IdOf(state)
    THEN NULL
    ELSE startState

\* deleteState(state)
DeleteState(state) ==
    /\ states' = StatesWithout(state)
    /\ transitions' = TransitionsWithoutState(state)
    /\ startState' = StartStateAfterDelete(state)
    /\ selectedState' = NULL

(***************************************************************************)
(* DFASimulator.validateTransition: the message of the error it throws,    *)
(* NoAlert when it returns true.                                           *)
(***************************************************************************)
\* The duplicate sought among the transitions entering fromState
HasDuplicateEntering(fromState, symbol) ==
    \E i \in 1..Len(transitions) :
        /\ IdOf(transitions[i].to) = IdOf(fromState)
        /\ Includes(SymbolsOf(transitions[i].symbol), symbol)

\* Some transition leaving fromState carries the symbol.
HasDuplicate(fromState, symbol) ==
    \E i \in 1..Len(transitions) :
        /\ IdOf(transitions[i].from) = IdOf(fromState)
        /\ Includes(SymbolsOf(transitions[i].symbol), symbol)

\* validateTransition checking the length of the first symbol only
validateFirstLength(fromState, toState, symbols) ==
    IF Len(symbols[1]) # 1
    THEN AlertOneCharacter
    ELSE IF \E i \in 1..Len(symbols) : HasDuplicate(fromState, symbols[i])
    THEN AlertDfaRule
    ELSE NoAlert

\* validateTransition without the loop over the existing transitions
validateLengthOnly(fromState, toState, symbols) ==
    IF \E i \in 1..Len(symbols) : Len(symbols[i]) # 1
    THEN AlertOneCharacter
    ELSE NoAlert

validateTransition(fromState, toState, symbols) ==
    IF \E i \in 1..Len(symbols) : Len(symbols[i]) # 1
    THEN AlertOneCharacter
    ELSE IF \E i \in 1..Len(symbols) : HasDuplicate(fromState, symbols[i])
    THEN AlertDfaRule
    ELSE NoAlert

(***************************************************************************)
(* BaseAutomaton: transition management.                                   *)
(***************************************************************************)
\* addTransition(from, to): opens the symbol dialog
AddTransition(from, to) ==
    /\ pendingTransitionData' =
          [from |-> from, to |-> to, editingTransition |-> NULL]
    /\ transitionModal' = TRUE

\* editTransitionSymbol(transition): opens the symbol dialog on a transition
EditTransitionSymbol(tid) ==
    /\ pendingTransitionData' =
          [from |-> TransitionById(tid).from, to |-> TransitionById(tid).to,
           editingTransition |-> tid]
    /\ transitionModal' = TRUE

\* createNewTransition never finding the pair's transition
ExistingTransitionNone(from, to) == 0

\* The index of the transition between the ordered pair, 0 for none.
ExistingTransition(from, to) ==
    FindIndex(transitions,
              LAMBDA t : IdOf(t.from) = IdOf(from) /\ IdOf(t.to) = IdOf(to))

\* symbols.filter(s => !existingSymbols.includes(s))
NewSymbols(existingSymbols, symbols) ==
    SelectSeq(symbols, LAMBDA s : ~Includes(existingSymbols, s))

\* The index of the transition in the opposite direction, 0 for none.
ReverseTransition(from, to) ==
    FindIndex(transitions,
              LAMBDA t : IdOf(t.from) = IdOf(to) /\ IdOf(t.to) = IdOf(from))

\* createNewTransition(from, to, symbols): the array it leaves, when it
\* does not throw.
CreateNewTransition(from, to, symbols) ==
    LET e == ExistingTransition(from, to) IN
    IF e # 0
    THEN LET existingSymbols == SymbolsOf(transitions[e].symbol) IN
         [transitions EXCEPT
            ![e].symbol =
                Join(existingSymbols \o NewSymbols(existingSymbols, symbols))]
    ELSE LET r == IF IdOf(from) = IdOf(to) THEN 0
                  ELSE ReverseTransition(from, to)
             new == [id |-> nextTransitionId, from |-> from, to |-> to,
                     symbol |-> Join(symbols),
                     offset |-> IF r # 0 THEN 0 - 10 ELSE 0]
         IN Append(IF r # 0 THEN [transitions EXCEPT ![r].offset = 10]
                   ELSE transitions,
                   new)

\* createNewTransition throws when the pair has a transition already
\* carrying every requested symbol.
CreateThrows(from, to, symbols) ==
    LET e == ExistingTransition(from, to) IN
    /\ e # 0
    /\ NewSymbols(SymbolsOf(transitions[e].symbol), symbols) = <<>>

\* editingTransition.symbol = symbols.join(', ') assigned to every
\* transition
EditSymbolOfAll(tid, symbols) ==
    [i \in 1..Len(transitions) |->
        [transitions[i] EXCEPT !.symbol = Join(symbols)]]

\* editingTransition.symbol = symbols.join(', '): the array afterwards (an
\* object no longer in the array changes nothing the array shows).
EditSymbol(tid, symbols) ==
    [i \in 1..Len(transitions) |->
        IF transitions[i].id = tid
        THEN [transitions[i] EXCEPT !.symbol = Join(symbols)]
        ELSE transitions[i]]

\* The symbols confirmTransition reads from the dialog's text.
ParseSymbols(input) == FilterNonEmpty(MapTrim(Split(Trim(input))))

\* What confirmTransition tells the user about the text: NoAlert when it
\* goes on to change the model.
ConfirmOutcome(input) ==
    LET p == pendingTransitionData
        symbols == ParseSymbols(input)
    IN IF Trim(input) = <<>> THEN AlertEnterSymbol
       ELSE IF symbols = <<>> THEN AlertValidSymbols
       ELSE IF validateTransition(p.from, p.to, symbols) # NoAlert
       THEN validateTransition(p.from, p.to, symbols)
       ELSE IF p.editingTransition = NULL /\ CreateThrows(p.from, p.to, symbols)
       THEN AlertAllExist
       ELSE NoAlert

\* The transitions array after a confirmTransition that passed validation.
ConfirmedTransitions(input) ==
    LET p == pendingTransitionData
        symbols == ParseSymbols(input)
    IN IF p.editingTransition # NULL
       THEN EditSymbol(p.editingTransition, symbols)
       ELSE CreateNewTransition(p.from, p.to, symbols)

\* deleteTransition removing the opposite transition with the transition
DeleteTransitionAndReverse(trans, t) ==
    SelectSeq(trans,
              LAMBDA u : /\ u.id # t.id
                         /\ ~(/\ IdOf(u.from) = IdOf(t.to)
                              /\ IdOf(u.to) = IdOf(t.from)))

\* deleteTransition(transition) on the array trans: the array it leaves.
\* The transition object need not be in the array.
DeleteTransitionFrom(trans, t) ==
    LET r == FindIndex(trans,
                       LAMBDA u : /\ IdOf(u.from) = IdOf(t.to)
                                  /\ IdOf(u.to) = IdOf(t.from)
                                  /\ u.offset # 0)
        cleared == IF r # 0 THEN [trans EXCEPT ![r].offset = 0]
                   ELSE trans
    IN SelectSeq(cleared, LAMBDA u : u.id # t.id)

\* deleteTransition(transition), the transition given by its id
TransitionsWithout(tid) ==
    DeleteTransitionFrom(transitions, TransitionById(tid))

DeleteTransition(tid) ==
    /\ transitions' = TransitionsWithout(tid)
    /\ selectedTransition' = NULL

(***************************************************************************)
(* The symbol dialog is a full-window overlay (a click on it outside its   *)
(* content closes it): while it is displayed the canvas and the toolbar    *)
(* are out of reach, and only confirmTransition and closing it can run.    *)
(***************************************************************************)
DialogClosed == ~transitionModal

(***************************************************************************)
(* BaseAutomaton.handleDown(x, y).  The geometry is abstracted: a click    *)
(* hits a state of `states` or none (getStateAt), a transition of          *)
(* `transitions` or none (getTransitionAt), possibly a label or self-loop  *)
(* drag area, and follows the previous click within doubleClickDelay or    *)
(* not.  One action per branch of the handler.                             *)
(***************************************************************************)
ClickStates == Elems(states) \cup {NULL}

ClickTransitions == TransitionIds \cup {NULL}

\* this.lastClickTarget = clickedState || clickedTransition
ClickTarget(cs, ct) ==
    IF cs # NULL THEN [state |-> cs, transition |-> NULL]
    ELSE [state |-> NULL, transition |-> ct]

\* Double click on a state: renameState opens the rename dialog.
IsRenameClick(cs, quick) ==
    quick /\ cs # NULL /\ lastClickTarget = [state |-> cs, transition |-> NULL]

\* Double click on a transition: editTransitionSymbol.
IsEditClick(cs, ct, quick) ==
    /\ quick
    /\ ~IsRenameClick(cs, quick)
    /\ ct # NULL
    /\ lastClickTarget = [state |-> NULL, transition |-> ct]

ClickRename(cs, ct) ==
    /\ DialogClosed
    /\ IsRenameClick(cs, TRUE)
    /\ alertMsg' = NoAlert
    /\ UNCHANGED <<modelVars, uiVars, resultText, bulkVars, debugVars,
                   nextTransitionId>>

ClickEdit(cs, ct) ==
    /\ DialogClosed
    /\ IsEditClick(cs, ct, TRUE)
    /\ EditTransitionSymbol(ct)
    /\ alertMsg' = NoAlert
    /\ UNCHANGED <<modelVars, selectedState, selectedTransition,
                   transitionSource, mode, lastClickTarget, resultText, bulkVars,
                   debugVars, nextTransitionId>>

\* The part every single click runs first.
SingleClick(cs, ct, quick) ==
    /\ DialogClosed
    /\ ~IsRenameClick(cs, quick)
    /\ ~IsEditClick(cs, ct, quick)
    /\ lastClickTarget' = ClickTarget(cs, ct)
    /\ alertMsg' = NoAlert

\* mode 'state', no state under the click: addState
ClickAddState(ct, quick) ==
    /\ mode = "state"
    /\ SingleClick(NULL, ct, quick)
    /\ selectedTransition' = NULL
    /\ AddState
    /\ UNCHANGED <<transitions, transitionSource, mode, pendingTransitionData,
                   transitionModal, resultText, bulkVars, debugVars, nextTransitionId>>

\* mode 'state', a state under the click: select it
ClickSelectState(cs, ct, quick) ==
    /\ mode = "state"
    /\ cs # NULL
    /\ SingleClick(cs, ct, quick)
    /\ selectedTransition' = NULL
    /\ selectedState' = cs
    /\ UNCHANGED <<modelVars, transitionSource, mode, pendingTransitionData,
                   transitionModal, resultText, bulkVars, debugVars, nextTransitionId>>

\* mode 'transition', first click on a state: remember the source
ClickTransitionSource(cs, ct, quick) ==
    /\ mode = "transition"
    /\ cs # NULL
    /\ transitionSource = NULL
    /\ SingleClick(cs, ct, quick)
    /\ selectedTransition' = NULL
    /\ transitionSource' = cs
    /\ UNCHANGED <<modelVars, selectedState, mode, pendingTransitionData,
                   transitionModal, resultText, bulkVars, debugVars, nextTransitionId>>

\* mode 'transition', second click on a state: addTransition(source, state)
ClickTransitionTarget(cs, ct, quick) ==
    /\ mode = "transition"
    /\ cs # NULL
    /\ transitionSource # NULL
    /\ SingleClick(cs, ct, quick)
    /\ selectedTransition' = NULL
    /\ AddTransition(transitionSource, cs)
    /\ transitionSource' = NULL
    /\ UNCHANGED <<modelVars, selectedState, mode, resultText, bulkVars, debugVars,
                   nextTransitionId>>

\* mode 'transition', no state under the click
ClickTransitionMiss(ct, quick) ==
    /\ mode = "transition"
    /\ SingleClick(NULL, ct, quick)
    /\ selectedTransition' = NULL
    /\ UNCHANGED <<modelVars, selectedState, transitionSource, mode,
                   pendingTransitionData, transitionModal, resultText, bulkVars,
                   debugVars, nextTransitionId>>

\* mode 'move': a label or self-loop handle, else a transition, else a state
ClickMove(cs, ct, onHandle, quick) ==
    /\ mode = "move"
    /\ SingleClick(cs, ct, quick)
    /\ selectedTransition' = IF ~onHandle /\ ct # NULL THEN ct ELSE NULL
    /\ selectedState' = IF ~onHandle /\ ct = NULL /\ cs # NULL THEN cs
                        ELSE selectedState
    /\ UNCHANGED <<modelVars, transitionSource, mode, pendingTransitionData,
                   transitionModal, resultText, bulkVars, debugVars, nextTransitionId>>

(***************************************************************************)
(* BaseAutomaton: the dialogs' and the toolbar's handlers.                 *)
(***************************************************************************)
\* The texts typed into the symbol dialog.
TransitionInputs ==
    { <<"a">>, <<"b">>, <<"a", ",", "b">>, <<" ", "b", " ">>, <<"a", "b">>,
      <<"a", ",", "a", "b">>, <<>>, <<" ">>, <<",">> }

\* confirmTransition() changing the transitions before it validates them
ConfirmTransitionLate(input) ==
    /\ transitionModal
    /\ pendingTransitionData # NoPending
    /\ alertMsg' = ConfirmOutcome(input)
    /\ IF ParseSymbols(input) = <<>>
       THEN UNCHANGED <<transitions, transitionModal, nextTransitionId>>
       ELSE /\ Len(ConfirmedTransitions(input)) > Len(transitions)
                => nextTransitionId <= MaxTransitions
            /\ transitions' = ConfirmedTransitions(input)
            /\ nextTransitionId' =
                  IF Len(ConfirmedTransitions(input)) > Len(transitions)
                  THEN nextTransitionId + 1
                  ELSE nextTransitionId
            /\ transitionModal' = (ConfirmOutcome(input) # NoAlert)
    /\ UNCHANGED <<states, stateObjs, startState, stateCounter, selectedState,
                   selectedTransition, transitionSource, mode, lastClickTarget,
                   pendingTransitionData, resultText, bulkVars, debugVars>>

\* confirmTransition(), the dialog open on pendingTransitionData
ConfirmTransition(input) ==
    /\ transitionModal
    /\ pendingTransitionData # NoPending
    /\ alertMsg' = ConfirmOutcome(input)
    /\ IF ConfirmOutcome(input) # NoAlert
       THEN UNCHANGED <<transitions, transitionModal, nextTransitionId>>
       ELSE /\ Len(ConfirmedTransitions(input)) > Len(transitions)
                => nextTransitionId <= MaxTransitions
            /\ transitions' = ConfirmedTransitions(input)
            /\ nextTransitionId' =
                  IF Len(ConfirmedTransitions(input)) > Len(transitions)
                  THEN nextTransitionId + 1
                  ELSE nextTransitionId
            /\ transitionModal' = FALSE
    /\ UNCHANGED <<states, stateObjs, startState, stateCounter, selectedState,
                   selectedTransition, transitionSource, mode, lastClickTarget,
                   pendingTransitionData, resultText, bulkVars, debugVars>>

\* closeModal('transitionModal'), the Escape key, a click outside the dialog
CloseModal ==
    /\ transitionModal
    /\ transitionModal' = FALSE
    /\ alertMsg' = NoAlert
    /\ UNCHANGED <<modelVars, selectedState, selectedTransition,
                   transitionSource, mode, lastClickTarget,
                   pendingTransitionData, resultText, bulkVars, debugVars,
                   nextTransitionId>>

\* setMode(newMode)
SetMode(newMode) ==
    /\ DialogClosed
    /\ mode' = newMode
    /\ transitionSource' = NULL
    /\ selectedTransition' = NULL
    /\ alertMsg' = NoAlert
    /\ UNCHANGED <<modelVars, selectedState, lastClickTarget,
                   pendingTransitionData, transitionModal, resultText, bulkVars,
                   debugVars, nextTransitionId>>

\* The start state setStartState() leaves.
StartStateAfterSet == IF selectedState # NULL THEN selectedState ELSE startState

\* setStartState()
SetStartState ==
    /\ DialogClosed
    /\ startState' = StartStateAfterSet
    /\ alertMsg' = IF selectedState # NULL THEN NoAlert ELSE AlertSelectState
    /\ UNCHANGED <<states, stateObjs, transitions, stateCounter, uiVars,
                   resultText, bulkVars, debugVars, nextTransitionId>>

\* toggleFinalState() flipping the flag of every state object
ToggleFinalStateOfAll ==
    /\ DialogClosed
    /\ stateObjs' = IF selectedState # NULL
                    THEN [r \in DOMAIN stateObjs |->
                             [stateObjs[r] EXCEPT !.isFinal = ~@]]
                    ELSE stateObjs
    /\ alertMsg' = IF selectedState # NULL THEN NoAlert ELSE AlertSelectState
    /\ UNCHANGED <<states, transitions, startState, stateCounter, uiVars,
                   resultText, bulkVars, debugVars, nextTransitionId>>

\* toggleFinalState()
ToggleFinalState ==
    /\ DialogClosed
    /\ stateObjs' = IF selectedState # NULL
                    THEN [stateObjs EXCEPT ![selectedState].isFinal = ~@]
                    ELSE stateObjs
    /\ alertMsg' = IF selectedState # NULL THEN NoAlert ELSE AlertSelectState
    /\ UNCHANGED <<states, transitions, startState, stateCounter, uiVars,
                   resultText, bulkVars, debugVars, nextTransitionId>>

\* confirmDelete(), a transition selected
ConfirmDeleteTransition ==
    /\ DialogClosed
    /\ selectedTransition # NULL
    /\ DeleteTransition(selectedTransition)
    /\ alertMsg' = NoAlert
    /\ UNCHANGED <<states, stateObjs, startState, stateCounter, selectedState,
                   transitionSource, mode, lastClickTarget,
                   pendingTransitionData, transitionModal, resultText, bulkVars,
                   debugVars, nextTransitionId>>

\* confirmDelete(), no transition but a state selected
ConfirmDeleteState ==
    /\ DialogClosed
    /\ selectedTransition = NULL
    /\ selectedState # NULL
    /\ DeleteState(selectedState)
    /\ alertMsg' = NoAlert
    /\ UNCHANGED <<stateObjs, stateCounter, selectedTransition,
                   transitionSource, mode, lastClickTarget,
                   pendingTransitionData, transitionModal, resultText, bulkVars,
                   debugVars, nextTransitionId>>

\* resetDebug()
ResetDebug ==
    /\ debugMode' = FALSE
    /\ currentDebugStep' = 0 - 1
    /\ debugSteps' = <<>>

\* The counter confirmClearAll() leaves.
CounterAfterClear == 0

\* confirmClearAll()
ConfirmClearAll ==
    /\ DialogClosed
    /\ states' = <<>>
    /\ transitions' = <<>>
    /\ selectedState' = NULL
    /\ selectedTransition' = NULL
    /\ startState' = NULL
    /\ transitionSource' = NULL
    /\ stateCounter' = CounterAfterClear
    /\ ResetDebug
    /\ alertMsg' = NoAlert
    /\ UNCHANGED <<stateObjs, mode, lastClickTarget, pendingTransitionData,
                   transitionModal, resultText, bulkVars, debugString, nextTransitionId>>

(***************************************************************************)
(* DFASimulator: simulateInput, testString, the step debugger.             *)
(***************************************************************************)
\* The characters of a test input.
InputChars == {"a", "b", " "}

RECURSIVE SeqsUpTo(_, _)
SeqsUpTo(S, n) ==
    IF n = 0 THEN {<<>>}
    ELSE LET shorter == SeqsUpTo(S, n - 1)
         IN shorter \cup {Append(q, c) : q \in shorter, c \in S}

\* The texts typed into the test input.
TestInputs == SeqsUpTo(InputChars, MaxInputLen)

\* this.transitions.find(t => t.from.id === currentState.id &&
\*     t.symbol.split(',').map(s => s.trim()).includes(symbol)):
\* the index of the transition found, 0 for none.
FindTransition(currentState, char) ==
    FindIndex(transitions,
              LAMBDA t : /\ IdOf(t.from) = IdOf(currentState)
                         /\ Includes(SymbolsOf(t.symbol), <<char>>))

\* The loop of simulateInput skipping a character no transition carries
RECURSIVE SimulateSkipping(_, _)
SimulateSkipping(currentState, input) ==
    IF input = <<>> THEN IsFinalOf(currentState)
    ELSE LET i == FindTransition(currentState, Head(input))
         IN IF i = 0 THEN SimulateSkipping(currentState, Tail(input))
            ELSE SimulateSkipping(transitions[i].to, Tail(input))

\* The loop of simulateInput from currentState over the rest of the input.
RECURSIVE SimulateFrom(_, _)
SimulateFrom(currentState, input) ==
    IF input = <<>> THEN IsFinalOf(currentState)
    ELSE LET i == FindTransition(currentState, Head(input))
         IN IF i = 0 THEN FALSE
            ELSE SimulateFrom(transitions[i].to, Tail(input))

\* simulateInput answering true without a start state
simulateInputNoStartTrue(input) ==
    IF ~Truthy(startState) THEN TRUE ELSE SimulateFrom(startState, input)

\* simulateInput(input)
simulateInput(input) ==
    IF ~Truthy(startState) THEN FALSE ELSE SimulateFrom(startState, input)

\* testString() forgetting the start state
TestStringLosingStart(text) ==
    /\ DialogClosed
    /\ resultText' = <<IF simulateInput(Trim(text)) THEN "ACCEPTED"
                       ELSE "REJECTED",
                       Trim(text)>>
    /\ startState' = NULL
    /\ alertMsg' = NoAlert
    /\ UNCHANGED <<states, stateObjs, transitions, stateCounter, uiVars,
                   debugVars, bulkVars, nextTransitionId>>

\* testString(): the verdict and the input written to the result element
TestString(text) ==
    /\ DialogClosed
    /\ resultText' = <<IF simulateInput(Trim(text)) THEN "ACCEPTED"
                       ELSE "REJECTED",
                       Trim(text)>>
    /\ alertMsg' = NoAlert
    /\ UNCHANGED <<modelVars, uiVars, debugVars, bulkVars, nextTransitionId>>

\* char: null and transition: null in a step
NoChar == "null"

\* A step of the trace; a flag the code leaves undefined is FALSE.
Step(k, state, char, transition, remaining, rejected, final, accepted) ==
    [step |-> k, state |-> state, char |-> char, transition |-> transition,
     remaining |-> remaining, rejected |-> rejected, final |-> final,
     accepted |-> accepted]

\* input.substring(i) giving the whole input
SubstringWhole(input, i) == input

\* input.substring(i), i counted from 0
Substring(input, i) == SubSeq(input, i + 1, Len(input))

\* The for loop of startStepDebug without the `break`
RECURSIVE DebugLoopNoBreak(_, _, _, _)
DebugLoopNoBreak(input, i, currentState, steps) ==
    IF i >= Len(input) THEN [steps |-> steps, state |-> currentState]
    ELSE LET char == input[i + 1]
             t == FindTransition(currentState, char)
         IN IF t = 0
            THEN DebugLoopNoBreak(input, i + 1, currentState,
                                  Append(steps,
                                         Step(i + 1, currentState, char, NULL,
                                              Substring(input, i),
                                              TRUE, FALSE, FALSE)))
            ELSE DebugLoopNoBreak(input, i + 1, transitions[t].to,
                                  Append(steps,
                                         Step(i + 1, transitions[t].to, char,
                                              transitions[t].id,
                                              Substring(input, i + 1),
                                              FALSE, FALSE, FALSE)))

\* The for loop of startStepDebug from index i (from 0), with the steps
\* pushed so far: the steps at the loop's end and the state it ended in.
RECURSIVE DebugLoop(_, _, _, _)
DebugLoop(input, i, currentState, steps) ==
    IF i >= Len(input) THEN [steps |-> steps, state |-> currentState]
    ELSE LET char == input[i + 1]
             t == FindTransition(currentState, char)
         IN IF t = 0
            THEN [steps |-> Append(steps,
                                   Step(i + 1, currentState, char, NULL,
                                        Substring(input, i),
                                        TRUE, FALSE, FALSE)),
                  state |-> currentState]
            ELSE DebugLoop(input, i + 1, transitions[t].to,
                           Append(steps,
                                  Step(i + 1, transitions[t].to, char,
                                       transitions[t].id,
                                       Substring(input, i + 1),
                                       FALSE, FALSE, FALSE)))

\* The final step numbered like the last character's step
FinalStepIndexOfLastChar(input) == Len(input)

\* The index the final step is given.
FinalStepIndex(input) == Len(input) + 1

\* The steps with a final step that always reports acceptance
BuildDebugStepsAlwaysAccepted(input) ==
    LET first == Step(0, startState, NoChar, NULL, input, FALSE, FALSE, FALSE)
        loop == DebugLoop(input, 0, startState, <<first>>)
        last == loop.steps[Len(loop.steps)]
    IN IF ~last.rejected
       THEN Append(loop.steps,
                   Step(FinalStepIndex(input), loop.state, NoChar, NULL, <<>>,
                        FALSE, TRUE, TRUE))
       ELSE loop.steps

\* The steps startStepDebug pushes for the (trimmed) input.
BuildDebugSteps(input) ==
    LET first == Step(0, startState, NoChar, NULL, input, FALSE, FALSE, FALSE)
        loop == DebugLoop(input, 0, startState, <<first>>)
        last == loop.steps[Len(loop.steps)]
    IN IF ~last.rejected
       THEN Append(loop.steps,
                   Step(FinalStepIndex(input), loop.state, NoChar, NULL, <<>>,
                        FALSE, TRUE, IsFinalOf(loop.state)))
       ELSE loop.steps

\* The input startStepDebug traces: the test input's text, trimmed.
DebugInput(text) == Trim(text)

\* Whether startStepDebug goes on after its start state check.
DebugStarts == Truthy(startState)

\* startStepDebug() entering debug mode before it checks the start state
NoStartDebugEntered ==
    /\ alertMsg' = AlertNoStartState
    /\ debugMode' = TRUE
    /\ debugString' = <<>>
    /\ debugSteps' = <<>>
    /\ currentDebugStep' = 0 - 1
    /\ UNCHANGED <<modelVars, uiVars, resultText, bulkVars, nextTransitionId>>

\* startStepDebug() with no start state: the alert, and the early return
NoStartDebug ==
    /\ alertMsg' = AlertNoStartState
    /\ UNCHANGED <<modelVars, uiVars, resultText, bulkVars, debugVars,
                   nextTransitionId>>

\* startStepDebug()
StartStepDebug(text) ==
    /\ DialogClosed
    /\ IF ~DebugStarts
       THEN NoStartDebug
       ELSE /\ debugMode' = TRUE
            /\ debugString' = DebugInput(text)
            /\ debugSteps' = BuildDebugSteps(DebugInput(text))
            /\ currentDebugStep' = 0
            /\ alertMsg' = NoAlert
            /\ UNCHANGED <<modelVars, uiVars, resultText, bulkVars,
                           nextTransitionId>>

\* stepNext() without its test of the last step
StepNextUnbounded ==
    /\ DialogClosed
    /\ currentDebugStep' = currentDebugStep + 1
    /\ alertMsg' = NoAlert
    /\ UNCHANGED <<modelVars, uiVars, resultText, bulkVars, debugMode,
                   debugString, debugSteps, nextTransitionId>>

\* stepNext()
StepNext ==
    /\ DialogClosed
    /\ currentDebugStep' = IF currentDebugStep < Len(debugSteps) - 1
                           THEN currentDebugStep + 1
                           ELSE currentDebugStep
    /\ alertMsg' = NoAlert
    /\ UNCHANGED <<modelVars, uiVars, resultText, bulkVars, debugMode,
                   debugString, debugSteps, nextTransitionId>>

\* stepPrev()
StepPrev ==
    /\ DialogClosed
    /\ currentDebugStep' = IF currentDebugStep > 0
                           THEN currentDebugStep - 1
                           ELSE currentDebugStep
    /\ alertMsg' = NoAlert
    /\ UNCHANGED <<modelVars, uiVars, resultText, bulkVars, debugMode,
                   debugString, debugSteps, nextTransitionId>>

(***************************************************************************)
(* AutomatonDataManager.loadAutomatonIntoSimulator.                        *)
(***************************************************************************)
\* startStateId: null, or a field the data does not have
NoId == 0 - 1

\* Ids a loaded file may use, one of them beyond those of its states.
DataIds == {0, 1, 2}

DataStates ==
    {<<>>} \cup
    {<<[id |-> i, isFinal |-> f, label |-> <<"q", i>>]>> :
        i \in {0, 1}, f \in Booleans} \cup
    {<<[id |-> i, isFinal |-> FALSE, label |-> <<"q", i>>],
       [id |-> j, isFinal |-> TRUE, label |-> <<"q", j>>]>> :
        i \in {0, 1}, j \in {0, 1}}

DataTransitions ==
    {<<>>} \cup
    {<<[fromId |-> i, toId |-> j, symbol |-> <<"a">>]>> :
        i \in DataIds, j \in DataIds}

\* The data validateAutomatonData accepts, within the bounds: arrays of
\* states with numeric ids and of transitions with numeric state ids and a
\* non-empty symbol string; startStateId and stateCounter are not validated.
LoadData ==
    [states : DataStates, transitions : DataTransitions,
     startStateId : DataIds \cup {NoId}, stateCounter : {0, 3}]

\* stateMap.get(id) once the states are restored at references base + 1,
\* base + 2, ...: the last state of the data with that id, UNDEFINED for none.
StateMapGet(data, base, id) ==
    IF \E i \in 1..Len(data.states) : data.states[i].id = id
    THEN base + CHOOSE i \in 1..Len(data.states) :
                    /\ data.states[i].id = id
                    /\ \A j \in (i + 1)..Len(data.states) :
                          data.states[j].id # id
    ELSE UNDEFINED

\* The transitions restored: those whose two states are both in the map.
RECURSIVE RestoreTransitions(_, _, _, _)
RestoreTransitions(data, base, i, tid) ==
    IF i > Len(data.transitions) THEN <<>>
    ELSE LET td == data.transitions[i]
             from == StateMapGet(data, base, td.fromId)
             to == StateMapGet(data, base, td.toId)
         IN IF Truthy(from) /\ Truthy(to)
            THEN <<[id |-> tid, from |-> from, to |-> to,
                    symbol |-> td.symbol, offset |-> 0]>>
                 \o RestoreTransitions(data, base, i + 1, tid + 1)
            ELSE RestoreTransitions(data, base, i + 1, tid)

\* The start state restored.
LoadedStartState(data, base) ==
    IF data.startStateId # NoId
    THEN StateMapGet(data, base, data.startStateId)
    ELSE NULL

Max(a, b) == IF a >= b THEN a ELSE b

\* loadAutomatonIntoSimulator(automatonData, simulator) leaving the
\* selected state as it was
LoadKeepingSelection(data) ==
    LET base == Len(stateObjs)
        restored == RestoreTransitions(data, base, 1, nextTransitionId)
    IN /\ DialogClosed
       /\ base + Len(data.states) <= MaxObjects
       /\ nextTransitionId + Len(restored) - 1 <= MaxTransitions
       /\ stateObjs' = stateObjs \o data.states
       /\ states' = [i \in 1..Len(data.states) |-> base + i]
       /\ transitions' = restored
       /\ nextTransitionId' = nextTransitionId + Len(restored)
       /\ selectedTransition' = NULL
       /\ transitionSource' = NULL
       /\ startState' = LoadedStartState(data, base)
       /\ stateCounter' = Max(data.stateCounter, Len(data.states))
       /\ ResetDebug
       /\ alertMsg' = NoAlert
       /\ UNCHANGED <<selectedState, mode, lastClickTarget,
                      pendingTransitionData, transitionModal, resultText,
                      bulkVars, debugString>>

\* loadAutomatonIntoSimulator(automatonData, simulator)
LoadAutomatonIntoSimulator(data) ==
    LET base == Len(stateObjs)
        restored == RestoreTransitions(data, base, 1, nextTransitionId)
    IN /\ DialogClosed
       /\ base + Len(data.states) <= MaxObjects
       /\ nextTransitionId + Len(restored) - 1 <= MaxTransitions
       /\ stateObjs' = stateObjs \o data.states
       /\ states' = [i \in 1..Len(data.states) |-> base + i]
       /\ transitions' = restored
       /\ nextTransitionId' = nextTransitionId + Len(restored)
       /\ selectedState' = NULL
       /\ selectedTransition' = NULL
       /\ transitionSource' = NULL
       /\ startState' = LoadedStartState(data, base)
       /\ stateCounter' = Max(data.stateCounter, Len(data.states))
       /\ ResetDebug
       /\ alertMsg' = NoAlert
       /\ UNCHANGED <<mode, lastClickTarget, pendingTransitionData,
                      transitionModal, resultText, bulkVars, debugString>>

(***************************************************************************)
(* Specifications.                                                         *)
(***************************************************************************)
\* The canvas clicks.
Click ==
    \E cs \in ClickStates, ct \in ClickTransitions, quick \in Booleans :
        \/ ClickRename(cs, ct)
        \/ ClickEdit(cs, ct)
        \/ ClickAddState(ct, quick)
        \/ ClickSelectState(cs, ct, quick)
        \/ ClickTransitionSource(cs, ct, quick)
        \/ ClickTransitionTarget(cs, ct, quick)
        \/ ClickTransitionMiss(ct, quick)
        \/ \E onHandle \in Booleans : ClickMove(cs, ct, onHandle, quick)

\* The editor: the handlers that build and edit the graph.
Next ==
    \/ Click
    \/ \E input \in TransitionInputs : ConfirmTransition(input)
    \/ CloseModal
    \/ \E m \in {"state", "transition", "move"} : SetMode(m)
    \/ ConfirmDeleteTransition
    \/ ConfirmDeleteState
    \/ ConfirmClearAll

Spec == Init /\ [][Next]_vars

\* The start state: the handlers that add, select, mark, delete and load
\* states.
NextStart ==
    \/ \E cs \in ClickStates, quick \in Booleans :
          \/ ClickAddState(NULL, quick)
          \/ ClickSelectState(cs, NULL, quick)
    \/ SetStartState
    \/ ToggleFinalState
    \/ ConfirmDeleteState
    \/ ConfirmClearAll
    \/ \E data \in LoadData : LoadAutomatonIntoSimulator(data)

SpecStart == Init /\ [][NextStart]_vars

\* addState(x, y) and addTransition(from, to) called on their own, as
\* handleDown calls them.
AddStateCall ==
    /\ DialogClosed
    /\ AddState
    /\ alertMsg' = NoAlert
    /\ UNCHANGED <<transitions, selectedTransition, transitionSource, mode,
                   lastClickTarget, pendingTransitionData, transitionModal,
                   resultText, bulkVars, debugVars, nextTransitionId>>

AddTransitionCall(from, to) ==
    /\ DialogClosed
    /\ AddTransition(from, to)
    /\ alertMsg' = NoAlert
    /\ UNCHANGED <<modelVars, selectedState, selectedTransition,
                   transitionSource, mode, lastClickTarget, resultText, bulkVars,
                   debugVars, nextTransitionId>>

\* The texts the engine's runs put into the symbol dialog.
EngineSymbolInputs == { <<"a">>, <<"b">> }

\* No test has been run and the debugger is off.  simulateInput and
\* startStepDebug read the automaton and never change it, so the automata
\* reached do not depend on the runs made on the way: the engine's
\* specifications build first and run last.
Building == resultText = NoResult /\ ~debugMode

\* The engine: the calls that build an automaton, then the runs on it.
NextEngine ==
    \/ /\ Building
       /\ \/ AddStateCall
          \/ \E from \in Elems(states), to \in Elems(states) :
                AddTransitionCall(from, to)
          \/ \E input \in EngineSymbolInputs : ConfirmTransition(input)
          \/ ToggleFinalState
    \/ \E text \in TestInputs : TestString(text)
    \/ \E text \in TestInputs : StartStepDebug(text)

SpecEngine == Init /\ [][NextEngine]_vars

\* The engine on automata that lost their start state.
NextNoStart ==
    \/ /\ Building
       /\ \/ AddStateCall
          \/ \E from \in Elems(states), to \in Elems(states) :
                AddTransitionCall(from, to)
          \/ ConfirmTransition(<<"a">>)
          \/ SetStartState
          \/ ConfirmDeleteState
    \/ \E text \in TestInputs : TestString(text)
    \/ \E text \in TestInputs : StartStepDebug(text)

SpecNoStart == Init /\ [][NextNoStart]_vars

(***************************************************************************)
(* Properties.                                                             *)
(***************************************************************************)
TransitionIndexes == 1..Len(transitions)

\* The characters a symbol string carries: all but its separators.
CarriedChars(symbol) == {symbol[i] : i \in 1..Len(symbol)} \ {",", " "}

\* C1: for every state s and every symbol c, at most one transition with
\* from = s carries c: two different transitions leaving the same state
\* carry no common symbol.
C1_Deterministic ==
    \A i \in TransitionIndexes, j \in TransitionIndexes :
        (i # j /\ IdOf(transitions[i].from) = IdOf(transitions[j].from))
            => CarriedChars(transitions[i].symbol)
                   \cap CarriedChars(transitions[j].symbol) = {}

\* Two transitions leave one state, on different symbols, and the dialog
\* has just refused a symbol that state already reads.
C1_Witness ==
    /\ alertMsg = AlertDfaRule
    /\ pendingTransitionData.from = transitions[1].from
    /\ \E i \in TransitionIndexes, j \in TransitionIndexes :
          /\ i # j
          /\ transitions[i].from = transitions[j].from
          /\ transitions[i].to # transitions[j].to

\* C2: every transition in `transitions` has both its from and its to
\* among the states currently in `states`.
C2_EndpointsInStates ==
    \A i \in TransitionIndexes :
        /\ transitions[i].from \in Elems(states)
        /\ transitions[i].to \in Elems(states)

\* What C3 says a deleteState(s) leaves.
DeleteFrame(s) ==
    /\ states' = SelectSeq(states, LAMBDA r : r # s)
    /\ transitions' = SelectSeq(transitions,
                                LAMBDA t : t.from # s /\ t.to # s)
    /\ startState' = IF startState = s THEN NULL ELSE startState
    /\ stateObjs' = stateObjs

\* C3: deleteState(s) removes exactly the transitions with from = s or
\* to = s, removes only s from `states`, sets startState to null iff s was
\* the start state, and leaves every other transition, every other state and
\* every isFinal flag unchanged.
C3_DeleteStateFrame ==
    [][ConfirmDeleteState => DeleteFrame(selectedState)]_vars

\* C4: startState is either unset (null or undefined) or a member of
\* `states`.
C4_StartStateInStates ==
    Truthy(startState) => startState \in Elems(states)

\* The start state was deleted and a state remains, or a load found no
\* state for startStateId among the states it restored.
C4_Witness ==
    /\ states # <<>>
    /\ Len(stateObjs) = MaxObjects
    /\ ~Truthy(startState)

\* The states a walk that follows, for each character of the input, a
\* transition leaving the current state and carrying it can be in, from Q.
RECURSIVE WalkFrom(_, _)
WalkFrom(Q, input) ==
    IF input = <<>> THEN Q
    ELSE WalkFrom({transitions[i].to :
                      i \in {j \in TransitionIndexes :
                                /\ \E q \in Q :
                                      IdOf(transitions[j].from) = IdOf(q)
                                /\ Head(input)
                                      \in CarriedChars(transitions[j].symbol)}},
                  Tail(input))

Walk(input) == WalkFrom({startState}, input)

\* A matching transition exists at every character.
FullyConsumed(input) == Walk(input) # {}

\* The number of characters read before the first one with no transition.
ConsumedBeforeMissing(input) ==
    CHOOSE k \in 0..Len(input) :
        /\ Walk(SubSeq(input, 1, k)) # {}
        /\ k < Len(input) => Walk(SubSeq(input, 1, k + 1)) = {}

\* C5: with a start state, simulateInput returns true iff the walk from
\* startState never meets a missing transition and ends in a final state;
\* it returns false when a character has no matching transition, and the
\* empty input is accepted iff startState.isFinal.
C5_SimulateInput ==
    Truthy(startState) =>
        /\ \A s \in TestInputs :
              /\ simulateInput(s) <=> \E q \in Walk(s) : IsFinalOf(q)
              /\ ~FullyConsumed(s) => ~simulateInput(s)
        /\ simulateInput(<<>>) <=> IsFinalOf(startState)

\* testString has accepted a two-character input that the automaton reads
\* through two different states, and the automaton rejects another input.
C5_Witness ==
    /\ Truthy(startState)
    /\ resultText = <<"ACCEPTED", <<"a", "b">>>>
    /\ ~simulateInput(<<"a">>)
    /\ ~FullyConsumed(<<"b">>)

\* C6: when startState is null, simulateInput returns false for every input,
\* signals no error and changes nothing in the model.
C6_NullStartRejects ==
    [][(startState = NULL /\ \E text \in TestInputs : TestString(text))
          => /\ \A s \in TestInputs : ~simulateInput(s)
             /\ resultText'[1] = "REJECTED"
             /\ alertMsg' = NoAlert
             /\ UNCHANGED modelVars]_vars

\* testString has run on an automaton with a state and a transition but no
\* start state.
C6_Witness ==
    /\ startState = NULL
    /\ states # <<>>
    /\ transitions # <<>>
    /\ resultText[1] = "REJECTED"

\* The trace startStepDebug builds when the test input holds the text.
TraceOf(text) == BuildDebugSteps(DebugInput(text))

LastStep(steps) == steps[Len(steps)]

TraceAccepts(steps) == LastStep(steps).final /\ LastStep(steps).accepted

\* C7 as stated: with a start state, simulateInput(s) is true iff the last
\* step of the trace startStepDebug builds for s is final and accepted.
C7_TraceAgrees ==
    Truthy(startState) =>
        \A s \in TestInputs : simulateInput(s) <=> TraceAccepts(TraceOf(s))

\* C7: with a start state, simulateInput on the trimmed s is true iff the
\* last step of the trace startStepDebug builds for s is final and accepted.
C7_TraceAgreesTrimmed ==
    Truthy(startState) =>
        \A s \in TestInputs :
            simulateInput(Trim(s)) <=> TraceAccepts(TraceOf(s))

\* testString and startStepDebug have both run on the same two-character
\* input and both accept it.
C7_Witness ==
    /\ debugMode
    /\ Len(debugString) = 2
    /\ TraceAccepts(debugSteps)
    /\ resultText = <<"ACCEPTED", debugString>>

\* The steps are numbered 0, 1, ... in order.
NumberedInOrder(steps) == \A k \in 1..Len(steps) : steps[k].step = k - 1

\* Step 0 has no character and no transition.
FirstStepBare(steps) == steps[1].char = NoChar /\ steps[1].transition = NULL

\* C8 as stated: the trace of a fully consumed input of n characters has
\* exactly n+1 steps with indices 0..n; step 0 has no character and no
\* transition; the step with index n is the last and carries final = true.
C8_StepsOfConsumed ==
    Truthy(startState) =>
        \A s \in TestInputs :
            LET input == DebugInput(s)
                steps == TraceOf(s)
            IN FullyConsumed(input) =>
                  /\ Len(steps) = Len(input) + 1
                  /\ NumberedInOrder(steps)
                  /\ FirstStepBare(steps)
                  /\ LastStep(steps).step = Len(input)
                  /\ LastStep(steps).final

\* C8: the trace of a fully consumed input of n characters has exactly n+2
\* steps with indices 0..n+1; step 0 has no character and no transition;
\* steps 1..n carry the characters read and their transitions, none final;
\* the step with index n+1 is the last, carries final = true and has no
\* character and no transition.
C8_StepsOfConsumedPlusFinal ==
    Truthy(startState) =>
        \A s \in TestInputs :
            LET input == DebugInput(s)
                steps == TraceOf(s)
                n == Len(input)
            IN FullyConsumed(input) =>
                  /\ Len(steps) = n + 2
                  /\ NumberedInOrder(steps)
                  /\ FirstStepBare(steps)
                  /\ \A k \in 1..n :
                        /\ steps[k + 1].char = input[k]
                        /\ steps[k + 1].transition \in TransitionIds
                  /\ \A k \in 1..(n + 1) : ~steps[k].final
                  /\ LastStep(steps).step = n + 1
                  /\ LastStep(steps).final
                  /\ LastStep(steps).char = NoChar
                  /\ LastStep(steps).transition = NULL

\* The debugger holds the trace of a two-character input read to its end.
C8_Witness ==
    /\ debugMode
    /\ Len(debugString) = 2
    /\ FullyConsumed(debugString)
    /\ Len(debugSteps) = 4
    /\ debugSteps[4].final
    /\ debugSteps[2].state # debugSteps[3].state

\* C9: when the trace reaches a character for which the current state has
\* no matching transition, exactly one step has rejected = true; its state
\* is the state reached before that character; it is the last step, no final
\* step follows it, and no step before it is rejected.
C9_RejectedStepIsLast ==
    Truthy(startState) =>
        \A s \in TestInputs :
            LET input == DebugInput(s)
                steps == TraceOf(s)
                k == ConsumedBeforeMissing(input)
            IN ~FullyConsumed(input) =>
                  /\ Len(steps) = k + 2
                  /\ LastStep(steps).rejected
                  /\ LastStep(steps).state \in Walk(SubSeq(input, 1, k))
                  /\ LastStep(steps).char = input[k + 1]
                  /\ LastStep(steps).transition = NULL
                  /\ \A j \in 1..(Len(steps) - 1) : ~steps[j].rejected
                  /\ \A j \in 1..Len(steps) : ~steps[j].final

\* The debugger holds a trace that read one character, moved to another
\* state and was rejected at the second character.
C9_Witness ==
    /\ debugMode
    /\ Len(debugString) = 2
    /\ Len(debugSteps) = 3
    /\ debugSteps[3].rejected
    /\ debugSteps[3].state # startState

\* C10: startStepDebug called while startState is null reports an error to
\* the user, produces no steps and leaves debugMode, debugSteps,
\* currentDebugStep and the model unchanged.
C10_NoStartNoDebug ==
    [][(startState = NULL /\ \E text \in TestInputs : StartStepDebug(text))
          => /\ alertMsg' = AlertNoStartState
             /\ UNCHANGED <<debugMode, debugSteps, currentDebugStep>>
             /\ UNCHANGED modelVars]_vars

\* startStepDebug has just refused to trace an automaton that has a state
\* and a transition but no start state.
C10_Witness ==
    /\ alertMsg = AlertNoStartState
    /\ startState = NULL
    /\ states # <<>>
    /\ transitions # <<>>
    /\ ~debugMode
    /\ debugSteps = <<>>

\* A confirmTransition step, on whatever text the dialog holds.
ConfirmStep == \E input \in TransitionInputs : ConfirmTransition(input)

\* C11: every confirmTransition call that fails (it alerts an error) leaves
\* `states`, `transitions` (the array and each transition's symbols) and
\* startState exactly as they were before the call.
C11_FailedConfirmChangesNothing ==
    [][(ConfirmStep /\ alertMsg' # NoAlert)
          => UNCHANGED <<states, stateObjs, transitions, startState>>]_vars

\* The dialog has just refused the edit of a transition's symbols, and
\* stays open on it.
C11_Witness ==
    /\ alertMsg \in {AlertDfaRule, AlertOneCharacter}
    /\ transitionModal
    /\ pendingTransitionData.editingTransition \in TransitionIds

\* The symbols of a request, as a set.
SymbolSet(symbols) == {symbols[i] : i \in 1..Len(symbols)}

\* The one-character symbols a transition carries.
CarriedSymbols(t) == {<<c>> : c \in CarriedChars(t.symbol)}

AllOneCharacter(symbols) == \A i \in 1..Len(symbols) : Len(symbols[i]) = 1

\* The transitions other than the one at index e that leave `from`.
OthersLeaving(from, e) ==
    {i \in TransitionIndexes \ {e} :
        IdOf(transitions[i].from) = IdOf(from)}

\* The transition keeps its identity, its ends and its symbols.
SameTransition(t, u) ==
    /\ t.id = u.id
    /\ t.from = u.from
    /\ t.to = u.to
    /\ t.symbol = u.symbol

\* The dialog was opened by addTransition for a pair with no transition,
\* and holds at least one symbol.
NewPairRequest(input) ==
    /\ pendingTransitionData.editingTransition = NULL
    /\ ParseSymbols(input) # <<>>
    /\ ExistingTransition(pendingTransitionData.from,
                          pendingTransitionData.to) = 0

\* What C12 says of the request: the determinism error and no change if a
\* transition leaving `from` carries one of the symbols, else one new
\* transition from `from` to `to` carrying exactly the symbols.
NewPairOutcome(input) ==
    LET p == pendingTransitionData
        S == SymbolSet(ParseSymbols(input))
        n == Len(transitions)
    IN IF \E i \in OthersLeaving(p.from, 0) :
             CarriedSymbols(transitions[i]) \cap S # {}
       THEN alertMsg' = AlertDfaRule /\ transitions' = transitions
       ELSE /\ alertMsg' = NoAlert
            /\ Len(transitions') = n + 1
            /\ \A i \in 1..n : SameTransition(transitions'[i], transitions[i])
            /\ transitions'[n + 1].from = p.from
            /\ transitions'[n + 1].to = p.to
            /\ CarriedSymbols(transitions'[n + 1]) = S

\* C12 as stated: with no transition for (from,to), adding symbols S fails
\* with the determinism error and changes nothing if a transition leaving
\* `from` carries a symbol of S; otherwise it creates exactly one new
\* transition from `from` to `to` carrying exactly S.
C12_AddToNewPair ==
    [][\A input \in TransitionInputs :
          (ConfirmTransition(input) /\ NewPairRequest(input))
              => NewPairOutcome(input)]_vars

\* C12: the same, for a request whose symbols are all one character long.
C12_AddOneCharactersToNewPair ==
    [][\A input \in TransitionInputs :
          (/\ ConfirmTransition(input)
           /\ NewPairRequest(input)
           /\ AllOneCharacter(ParseSymbols(input)))
              => NewPairOutcome(input)]_vars

\* The dialog, opened for a pair with no transition, has just refused a
\* symbol that a transition to another state carries.
C12_Witness ==
    /\ alertMsg = AlertDfaRule
    /\ transitionModal
    /\ pendingTransitionData.editingTransition = NULL
    /\ Truthy(pendingTransitionData.from)
    /\ ExistingTransition(pendingTransitionData.from,
                          pendingTransitionData.to) = 0
    /\ OthersLeaving(pendingTransitionData.from, 0) # {}

\* The dialog was opened by addTransition for a pair that has a transition,
\* and holds at least one symbol.
ExistingPairRequest(input) ==
    /\ pendingTransitionData.editingTransition = NULL
    /\ ParseSymbols(input) # <<>>
    /\ ExistingTransition(pendingTransitionData.from,
                          pendingTransitionData.to) # 0

\* The requested symbols that the pair's transition does not carry yet.
SymbolsNotYetOn(input) ==
    LET p == pendingTransitionData
    IN SymbolSet(ParseSymbols(input))
          \ CarriedSymbols(transitions[ExistingTransition(p.from, p.to)])

\* C13: when a transition exists for (from,to), the request holds a symbol
\* not yet on it and no other transition leaving `from` carries a new
\* symbol, the add succeeds: the symbols already on the transition are
\* ignored, its symbols become the union of the old and the requested ones,
\* and no transition is created.
C13_MergeIgnoresPresentSymbols ==
    [][\A input \in TransitionInputs :
          LET p == pendingTransitionData
              e == ExistingTransition(p.from, p.to)
          IN (/\ ConfirmTransition(input)
              /\ ExistingPairRequest(input)
              /\ AllOneCharacter(ParseSymbols(input))
              /\ SymbolsNotYetOn(input) # {}
              /\ \A i \in OthersLeaving(p.from, e) :
                    CarriedSymbols(transitions[i])
                        \cap SymbolsNotYetOn(input) = {})
             => /\ alertMsg' = NoAlert
                /\ Len(transitions') = Len(transitions)
                /\ CarriedSymbols(transitions'[e]) =
                      CarriedSymbols(transitions[e])
                          \cup SymbolSet(ParseSymbols(input))
                /\ \A i \in TransitionIndexes \ {e} :
                      SameTransition(transitions'[i], transitions[i])]_vars

\* C14: when a transition exists for (from,to) and every requested symbol
\* is already on it, the add fails with the "all symbols already exist"
\* error, and the model is unchanged.
C14_AllPresentIsDuplicateError ==
    [][\A input \in TransitionInputs :
          (/\ ConfirmTransition(input)
           /\ ExistingPairRequest(input)
           /\ SymbolsNotYetOn(input) = {})
             => /\ alertMsg' = AlertAllExist
                /\ UNCHANGED modelVars]_vars

\* Every symbol of every transition is one character long.
OneCharacterSymbols ==
    \A i \in TransitionIndexes :
        AllOneCharacter(SymbolsOf(transitions[i].symbol))

\* C15: every symbol carried by a transition created, merged or edited
\* through confirmTransition is exactly one character, and a request holding
\* any symbol whose length is not 1 is rejected with the invalid-symbol
\* error and changes nothing, whatever its other symbols are.
C15_SymbolsAreOneCharacter ==
    /\ []OneCharacterSymbols
    /\ [][\A input \in TransitionInputs :
             (/\ ConfirmTransition(input)
              /\ ParseSymbols(input) # <<>>
              /\ ~AllOneCharacter(ParseSymbols(input)))
                => /\ alertMsg' = AlertOneCharacter
                   /\ UNCHANGED modelVars]_vars

\* A transition carries two merged symbols, and the dialog has just refused
\* a request holding a symbol of more than one character.
C15_Witness ==
    /\ alertMsg = AlertOneCharacter
    /\ transitionModal
    /\ \E i \in TransitionIndexes :
          Cardinality(CarriedSymbols(transitions[i])) = 2

\* C16: `transitions` never holds two distinct transitions with the same
\* ordered pair (from,to).
C16_OneTransitionPerPair ==
    \A i \in TransitionIndexes, j \in TransitionIndexes :
        (/\ IdOf(transitions[i].from) = IdOf(transitions[j].from)
         /\ IdOf(transitions[i].to) = IdOf(transitions[j].to))
            => i = j

\* A second request for a pair was merged into its transition, which now
\* carries two symbols, next to the transition of the opposite direction.
C16_Witness ==
    /\ Len(transitions) = 2
    /\ ~transitionModal
    /\ transitions[1].from = transitions[2].to
    /\ transitions[1].to = transitions[2].from
    /\ transitions[1].from # transitions[1].to
    /\ Cardinality(CarriedSymbols(transitions[1])) = 2

\* The state objects addState has created so far, detached ones included.
CreatedStates == 1..Len(stateObjs)

\* C17: any two states created by addState in one session have different
\* ids, even when the first was deleted or the model was cleared before the
\* second was created.
C17_IdsNeverReused ==
    \A r \in CreatedStates, q \in CreatedStates :
        IdOf(r) = IdOf(q) => r = q

\* C18: no two members of `states` have the same id.
C18_StateIdsUnique ==
    \A i \in 1..Len(states), j \in 1..Len(states) :
        IdOf(states[i]) = IdOf(states[j]) => i = j

\* A click that adds a state.
AddStateStep ==
    \E ct \in ClickTransitions, quick \in Booleans : ClickAddState(ct, quick)

\* C19: addState adds exactly one state whose id is the counter before the
\* call, with label "q"+id and isFinal = false, increments the counter by
\* one, leaves `transitions` and the existing states unchanged, and sets
\* startState to the new state iff the model had no states before.
C19_AddStateFrame ==
    [][AddStateStep =>
          LET new == states'[Len(states')]
          IN /\ states' = Append(states, new)
             /\ new \notin Elems(states)
             /\ new \notin DOMAIN stateObjs
             /\ DOMAIN stateObjs' = DOMAIN stateObjs \cup {new}
             /\ stateObjs'[new] = [id |-> stateCounter, isFinal |-> FALSE,
                                   label |-> <<"q", stateCounter>>]
             /\ \A r \in DOMAIN stateObjs : stateObjs'[r] = stateObjs[r]
             /\ stateCounter' = stateCounter + 1
             /\ transitions' = transitions
             /\ startState' = IF states = <<>> THEN new ELSE startState]_vars

\* A second state has been added next to the start state, which stayed
\* the first one.
C19_Witness ==
    /\ Len(states) = 2
    /\ stateCounter = 2
    /\ startState = states[1]
    /\ selectedState = states[2]
    /\ stateObjs[states[2]].label = <<"q", 1>>
    /\ transitions = <<>>

\* C20: deleteTransition(t) removes t and no other transition; a second
\* deleteTransition(t) raises no error and leaves `transitions`, `states`
\* and startState exactly as they were after the first call.
C20_DeleteTransitionTwice ==
    [][ConfirmDeleteTransition =>
          LET t == TransitionById(selectedTransition)
              kept == SelectSeq(transitions, LAMBDA u : u.id # t.id)
          IN /\ Len(kept) = Len(transitions) - 1
             /\ Len(transitions') = Len(kept)
             /\ \A i \in 1..Len(kept) : SameTransition(transitions'[i], kept[i])
             /\ UNCHANGED <<states, stateObjs, startState>>
             /\ DeleteTransitionFrom(transitions', t) = transitions']_vars

\* One of two opposite transitions was deleted: the other one is left,
\* drawn straight again, and no state was deleted.
C20_Witness ==
    /\ Len(transitions) = 1
    /\ nextTransitionId = 3
    /\ selectedTransition = NULL
    /\ mode = "move"
    /\ Len(states) = 2
    /\ transitions[1].from # transitions[1].to
    /\ transitions[1].offset = 0

\* The state objects created so far that are not members of `states`.
AbsentStates == CreatedStates \ Elems(states)

\* C21: deleteState called with a state that is not, or no longer, a member
\* of `states` leaves `states`, `transitions` and startState unchanged.
C21_DeleteAbsentStateIsNoOp ==
    \A s \in AbsentStates :
        /\ StatesWithout(s) = states
        /\ TransitionsWithoutState(s) = transitions
        /\ StartStateAfterDelete(s) = startState

(***************************************************************************)
(* AutomatonDataManager: sharing an automaton by link.                     *)
(***************************************************************************)
AlertInvalidLink == "Invalid or corrupted automaton link"

\* The structure encodeAutomatonToURL builds from the simulator.
AutomatonData ==
    [states |-> [i \in 1..Len(states) |-> stateObjs[states[i]]],
     transitions |->
        [i \in 1..Len(transitions) |->
            [fromId |-> IdOf(transitions[i].from),
             toId |-> IdOf(transitions[i].to),
             symbol |-> transitions[i].symbol]],
     startStateId |-> IF Truthy(startState) THEN IdOf(startState) ELSE NoId,
     stateCounter |-> stateCounter]

\* The characters sanitizeString removes.
IsDangerous(c) == c \in {"<", ">", "'", "\"", "&"}

Min(a, b) == IF a <= b THEN a ELSE b

\* sanitizeString(str, maxLength)
SanitizeString(str, maxLength) ==
    Trim(SelectSeq(SubSeq(str, 1, Min(Len(str), maxLength)),
                   LAMBDA c : ~IsDangerous(c)))

\* parseInt(null)
NaN == 0 - 2

\* What sanitizeAutomatonData returns when it throws.
ReferenceError == "ReferenceError: transition is not defined"

\* Whether the identifier `transition`, read by sanitizeAutomatonData
\* outside the arrow function whose parameter it is, is in scope: no
\* declaration of the sources puts it there.
TransitionInScope == FALSE

\* sanitizeAutomatonData(data)
SanitizeAutomatonData(data) ==
    IF ~TransitionInScope
    THEN ReferenceError
    ELSE [states |->
             [i \in 1..Len(data.states) |->
                 [id |-> data.states[i].id,
                  isFinal |-> data.states[i].isFinal,
                  label |-> IF Len(data.states[i].label) = 2
                            THEN data.states[i].label
                            ELSE SanitizeString(data.states[i].label, 20)]],
          transitions |->
             [i \in 1..Len(data.transitions) |->
                 [fromId |-> data.transitions[i].fromId,
                  toId |-> data.transitions[i].toId,
                  symbol |-> SanitizeString(data.transitions[i].symbol, 10)]],
          startStateId |-> IF data.startStateId = NoId THEN NaN
                           ELSE data.startStateId,
          stateCounter |-> Max(0, data.stateCounter)]

\* The link of the automaton is made (encodeAutomatonToURL) and opened in a
\* new page: loadAutomatonFromURL runs on a new simulator, which the
\* variables describe from then on.
OpenSharedLink ==
    LET sanitizedData == SanitizeAutomatonData(AutomatonData)
    IN /\ DialogClosed
       /\ states # <<>>
       /\ IF sanitizedData = ReferenceError
          THEN /\ stateObjs' = <<>>
               /\ states' = <<>>
               /\ transitions' = <<>>
               /\ startState' = NULL
               /\ stateCounter' = 0
               /\ nextTransitionId' = 1
               /\ alertMsg' = AlertInvalidLink
          ELSE /\ stateObjs' = sanitizedData.states
               /\ states' = [i \in 1..Len(sanitizedData.states) |-> i]
               /\ transitions' = RestoreTransitions(sanitizedData, 0, 1, 1)
               /\ startState' = LoadedStartState(sanitizedData, 0)
               /\ stateCounter' = Max(sanitizedData.stateCounter,
                                      Len(sanitizedData.states))
               /\ nextTransitionId' =
                     1 + Len(RestoreTransitions(sanitizedData, 0, 1, 1))
               /\ alertMsg' = NoAlert
       /\ selectedState' = NULL
       /\ selectedTransition' = NULL
       /\ transitionSource' = NULL
       /\ mode' = "state"
       /\ lastClickTarget' = NoTarget
       /\ pendingTransitionData' = NoPending
       /\ resultText' = NoResult
       /\ debugString' = <<>>
       /\ ResetDebug
       /\ UNCHANGED <<transitionModal, bulkVars>>

\* Sharing: automata are built, shared by link and opened.
NextShare ==
    \/ AddStateCall
    \/ \E from \in Elems(states), to \in Elems(states) :
          AddTransitionCall(from, to)
    \/ \E input \in EngineSymbolInputs : ConfirmTransition(input)
    \/ ToggleFinalState
    \/ OpenSharedLink

SpecShare == Init /\ [][NextShare]_vars

\* C22: serializing an automaton, then passing the structure through
\* sanitizeAutomatonData and loadAutomatonIntoSimulator, yields a model on
\* which simulateInput returns, for every input, what it returned before.
C22_RoundTripKeepsResults ==
    [][OpenSharedLink =>
          \A s \in TestInputs : simulateInput(s)' = simulateInput(s)]_vars

(***************************************************************************)
(* DFASimulator: bulk testing.                                             *)
(***************************************************************************)
\* String.prototype.split('\n')
RECURSIVE SplitLinesFrom(_, _, _)
SplitLinesFrom(s, i, piece) ==
    IF i > Len(s) THEN <<piece>>
    ELSE IF s[i] = "\n" THEN <<piece>> \o SplitLinesFrom(s, i + 1, <<>>)
    ELSE SplitLinesFrom(s, i + 1, Append(piece, s[i]))

\* value.split('\n').map(s => s.trim()).filter(s => s !== null): the
\* filter drops nothing, no string being null.
BulkStrings(value) == MapTrim(SplitLinesFrom(value, 1, <<>>))

\* strings.indexOf(str) === strings.lastIndexOf(str)
OccursOnce(strings, str) ==
    Cardinality({i \in 1..Len(strings) : strings[i] = str}) = 1

\* str === '' || strings.indexOf(str) === strings.lastIndexOf(str)
BulkTested(strings, str) == str = <<>> \/ OccursOnce(strings, str)

\* What the results show for the empty string.
EmptyStringText == <<"(empty string)">>

\* The result pushed for one string.
BulkResult(str, expectedResult) ==
    [string |-> IF str = <<>> THEN EmptyStringText ELSE str,
     expected |-> IF expectedResult THEN "ACCEPT" ELSE "REJECT",
     actual |-> IF simulateInput(str) THEN "ACCEPT" ELSE "REJECT",
     passed |-> simulateInput(str) = expectedResult]

\* strings.forEach(str => { if (...) results.push(...) })
RECURSIVE BulkResultsFrom(_, _, _)
BulkResultsFrom(strings, i, expectedResult) ==
    IF i > Len(strings) THEN <<>>
    ELSE (IF BulkTested(strings, strings[i])
          THEN <<BulkResult(strings[i], expectedResult)>>
          ELSE <<>>)
         \o BulkResultsFrom(strings, i + 1, expectedResult)

\* The results of runBulkTest for the two text areas.
BulkResults(acceptValue, rejectValue) ==
    BulkResultsFrom(BulkStrings(acceptValue), 1, TRUE)
        \o BulkResultsFrom(BulkStrings(rejectValue), 1, FALSE)

\* The texts typed into the text areas of the bulk test.
BulkInputs ==
    {<<>>, <<"a", "\n", "b">>, <<"a", "\n", "a">>, <<" ", "a">>}

\* runBulkTest() with the two text areas holding the given values
RunBulkTest(acceptValue, rejectValue) ==
    /\ DialogClosed
    /\ acceptInput' = acceptValue
    /\ rejectInput' = rejectValue
    /\ IF ~Truthy(startState)
       THEN /\ alertMsg' = AlertNoStartState
            /\ UNCHANGED bulkResults
       ELSE /\ alertMsg' = NoAlert
            /\ bulkResults' =
                  [shown |-> TRUE,
                   results |-> BulkResults(acceptValue, rejectValue)]
    /\ UNCHANGED <<modelVars, uiVars, resultText, debugVars,
                   nextTransitionId>>

\* Bulk testing: an automaton is built, then the bulk test is run once.
NextBulk ==
    \/ /\ ~bulkResults.shown
       /\ \/ AddStateCall
          \/ \E from \in Elems(states), to \in Elems(states) :
                AddTransitionCall(from, to)
          \/ \E input \in EngineSymbolInputs : ConfirmTransition(input)
          \/ ToggleFinalState
    \/ /\ ~bulkResults.shown
       /\ \E acceptValue \in BulkInputs, rejectValue \in BulkInputs :
             RunBulkTest(acceptValue, rejectValue)

SpecBulk == Init /\ [][NextBulk]_vars

\* The strings of a list as the claim reads it: the lines of the text
\* area, none for an empty text area.
ListedStrings(value) ==
    IF value = <<>> THEN <<>> ELSE BulkStrings(value)

\* The result at position i is the one of the string str with the
\* expectation given.
ResultOf(result, str, expectedResult) ==
    /\ result.string = (IF str = <<>> THEN EmptyStringText ELSE str)
    /\ result.passed = (simulateInput(str) = expectedResult)

\* C23: runBulkTest reports exactly one result for each string of the accept
\* list and of the reject list, duplicates included and none for an empty
\* list; a result is marked passed exactly when simulateInput of its string
\* equals the expectation of its list.
C23_OneResultPerString ==
    bulkResults.shown =>
        LET accepts == ListedStrings(acceptInput)
            rejects == ListedStrings(rejectInput)
            results == bulkResults.results
        IN /\ Len(results) = Len(accepts) + Len(rejects)
           /\ \A i \in 1..Len(accepts) :
                 ResultOf(results[i], accepts[i], TRUE)
           /\ \A i \in 1..Len(rejects) :
                 ResultOf(results[Len(accepts) + i], rejects[i], FALSE)

\* The state setStartState and toggleFinalState designate is a member of
\* `states` whenever there is one.
SelectedInStates == selectedState # NULL => selectedState \in Elems(states)

\* Every isFinal flag but the one of state s is left as it was.
OtherFlagsKept(s) ==
    /\ DOMAIN stateObjs' = DOMAIN stateObjs
    /\ \A r \in DOMAIN stateObjs :
          /\ stateObjs'[r].id = stateObjs[r].id
          /\ r # s => stateObjs'[r].isFinal = stateObjs[r].isFinal

\* C24: setStartState and toggleFinalState act on a member of `states` only:
\* setStartState makes exactly the designated state the start state,
\* toggleFinalState flips exactly its isFinal; with no state designated each
\* reports an error and leaves startState and every isFinal unchanged.
C24_DesignatedStateOnly ==
    /\ []SelectedInStates
    /\ [][/\ (SetStartState /\ selectedState # NULL) =>
                /\ startState' = selectedState
                /\ startState' \in Elems(states')
                /\ stateObjs' = stateObjs
          /\ (ToggleFinalState /\ selectedState # NULL) =>
                /\ stateObjs'[selectedState].isFinal
                      = ~stateObjs[selectedState].isFinal
                /\ OtherFlagsKept(selectedState)
                /\ startState' = startState
          /\ ((SetStartState \/ ToggleFinalState) /\ selectedState = NULL) =>
                /\ alertMsg' = AlertSelectState
                /\ startState' = startState
                /\ stateObjs' = stateObjs]_vars

\* A second state was made the start state and the first one final.
C24_Witness ==
    /\ Len(states) = 2
    /\ selectedState = states[1]
    /\ startState = states[2]
    /\ IsFinalOf(states[1])
    /\ ~IsFinalOf(states[2])
    /\ alertMsg = NoAlert

\* Step k of a trace (k counted from 0, the step of index k + 1) is linked
\* to the step before it: its transition leaves that step's state, carries
\* the k-th character of the input and enters the state of step k, and its
\* `remaining` is the input after its first k characters.
StepLinked(input, steps, k) ==
    LET cur == steps[k + 1]
        prev == steps[k]
    IN /\ cur.transition # NULL
       /\ cur.transition \in TransitionIds
       /\ TransitionById(cur.transition).from = prev.state
       /\ k <= Len(input)
       /\ cur.char = input[k]
       /\ Includes(SymbolsOf(TransitionById(cur.transition).symbol),
                   input[k])
       /\ TransitionById(cur.transition).to = cur.state
       /\ cur.remaining = SubSeq(input, k + 1, Len(input))

ResetDebugCall ==
    /\ DialogClosed
    /\ ResetDebug
    /\ alertMsg' = NoAlert
    /\ UNCHANGED <<modelVars, uiVars, resultText, bulkVars, debugString,
                   nextTransitionId>>

\* The texts typed into the test input while debugging.
DebugTexts == {<<>>, <<"a", "b">>, <<"b", " ">>}

\* The text areas of the bulk test while debugging.
DebugBulkInputs == {<<"a">>}

\* Debugging: automata are built while no test was run and the debugger is
\* off; they are tested, traced, stepped through and cleared.
NextDebug ==
    \/ /\ Building
       /\ \/ AddStateCall
          \/ \E from \in Elems(states), to \in Elems(states) :
                AddTransitionCall(from, to)
          \/ \E input \in EngineSymbolInputs : ConfirmTransition(input)
          \/ ToggleFinalState
    \/ TestString(<<"a">>)
    \/ \E value \in DebugBulkInputs : RunBulkTest(value, value)
    \/ \E text \in DebugTexts : StartStepDebug(text)
    \/ StepNext
    \/ StepPrev
    \/ ResetDebugCall
    \/ ConfirmClearAll

SpecDebug == Init /\ [][NextDebug]_vars

\* A step of testString (simulateInput shown), startStepDebug, stepNext,
\* stepPrev or runBulkTest.
ReadingStep ==
    \/ TestString(<<"a">>)
    \/ \E text \in DebugTexts : StartStepDebug(text)
    \/ StepNext
    \/ StepPrev
    \/ \E value \in DebugBulkInputs : RunBulkTest(value, value)

\* A step of startStepDebug, stepNext or stepPrev.
DebuggerStep ==
    \/ \E text \in DebugTexts : StartStepDebug(text)
    \/ StepNext
    \/ StepPrev

\* C26: simulateInput, startStepDebug, stepNext, stepPrev and runBulkTest
\* never change states, transitions, their symbols, any isFinal, startState
\* or stateCounter; startStepDebug, stepNext and stepPrev change no field
\* of the simulator but debugMode, debugString, debugSteps and
\* currentDebugStep.
C26_ReadersChangeNothing ==
    [][/\ ReadingStep =>
             UNCHANGED <<states, stateObjs, transitions, startState,
                         stateCounter>>
       /\ DebuggerStep =>
             UNCHANGED <<modelVars, uiVars, nextTransitionId>>]_vars

\* A trace was started on an automaton with a transition and stepped
\* forward after a test and a bulk test were run.
C26_Witness ==
    /\ debugMode
    /\ currentDebugStep = 2
    /\ resultText # NoResult
    /\ bulkResults.shown
    /\ Len(transitions) > 0

\* C30: while debugMode is true debugSteps is non-empty and
\* currentDebugStep is an index of it (0 to length - 1); while it is false
\* debugSteps is empty and currentDebugStep is -1; stepNext at the last
\* step and stepPrev at step 0, or either outside debug mode, change
\* nothing.
C30_DebugPosition ==
    /\ [](IF debugMode
          THEN /\ debugSteps # <<>>
               /\ currentDebugStep \in 0..(Len(debugSteps) - 1)
          ELSE /\ debugSteps = <<>>
               /\ currentDebugStep = 0 - 1)
    /\ [][/\ (StepNext /\ (~debugMode
                            \/ currentDebugStep = Len(debugSteps) - 1))
                => UNCHANGED <<modelVars, uiVars, debugVars>>
          /\ (StepPrev /\ (~debugMode \/ currentDebugStep = 0))
                => UNCHANGED <<modelVars, uiVars, debugVars>>]_vars

\* The debugger stands at the last step of a trace of three steps, after
\* an earlier trace was reset.
C30_Witness ==
    /\ debugMode
    /\ Len(debugSteps) = 3
    /\ currentDebugStep = 2
    /\ debugSteps[3].rejected

\* A step of loadAutomatonIntoSimulator on data validateAutomatonData
\* accepts.
LoadStep == \E data \in LoadData : LoadAutomatonIntoSimulator(data)

\* The ids of the states of the data.
KnownIds(data) == {data.states[i].id : i \in 1..Len(data.states)}

\* The transitions of the data that name known states only.
Restorable(data) ==
    {i \in 1..Len(data.transitions) :
        /\ data.transitions[i].fromId \in KnownIds(data)
        /\ data.transitions[i].toId \in KnownIds(data)}

\* The transitions restored from the data are those naming known states,
\* and the start state restored is a state exactly when the data names a
\* known one.
UnknownIdsSkipped ==
    \A data \in LoadData :
        /\ Len(RestoreTransitions(data, Len(stateObjs), 1, nextTransitionId))
              = Cardinality(Restorable(data))
        /\ Truthy(LoadedStartState(data, Len(stateObjs)))
              <=> data.startStateId \in KnownIds(data)

\* What C27 says of the model a load leaves.
LoadedModel ==
    /\ \A i \in 1..Len(transitions) :
          /\ transitions[i].from \in Elems(states)
          /\ transitions[i].to \in Elems(states)
    /\ startState \in Elems(states) \cup {NULL, UNDEFINED}
    /\ selectedState = NULL
    /\ selectedTransition = NULL
    /\ transitionSource = NULL

\* C27: loadAutomatonIntoSimulator on data accepted by validateAutomatonData
\* yields a model where the from and to of every transition are members of
\* `states` (transitions naming unknown ids are skipped), startState is a
\* member of `states` or unset, and selectedState, selectedTransition and
\* transitionSource are null.
C27_LoadedModel ==
    /\ []UnknownIdsSkipped
    /\ [][LoadStep => LoadedModel']_vars

\* A load restored a transition between two states, over a model in which
\* a state was selected; the start state named by the data is unknown.
C27_Witness ==
    /\ Len(states) = 2
    /\ Len(transitions) = 1
    /\ transitions[1].from # transitions[1].to
    /\ startState = UNDEFINED
    /\ selectedState = NULL

\* The dialog was opened by editTransitionSymbol on a transition.
EditRequest == pendingTransitionData.editingTransition # NULL

\* The symbols of the text pass the validation C28 describes: there is
\* one at least, each is one character, and no transition leaving `from`,
\* the edited one included, carries any of them.
EditValid(input) ==
    LET symbols == ParseSymbols(input)
    IN /\ symbols # <<>>
       /\ AllOneCharacter(symbols)
       /\ \A i \in OthersLeaving(pendingTransitionData.from, 0) :
             CarriedSymbols(transitions[i]) \cap SymbolSet(symbols) = {}

\* What C28 says of the edit.
EditOutcome(input) ==
    LET e == pendingTransitionData.editingTransition
    IN IF EditValid(input)
       THEN /\ alertMsg' = NoAlert
            /\ Len(transitions') = Len(transitions)
            /\ \A i \in 1..Len(transitions) :
                  IF transitions[i].id = e
                  THEN /\ transitions'[i].id = e
                       /\ transitions'[i].from = transitions[i].from
                       /\ transitions'[i].to = transitions[i].to
                       /\ SymbolsOf(transitions'[i].symbol)
                             = ParseSymbols(input)
                  ELSE transitions'[i] = transitions[i]
            /\ UNCHANGED <<states, stateObjs, startState, stateCounter>>
       ELSE /\ alertMsg' # NoAlert
            /\ UNCHANGED <<modelVars, transitions>>

\* C28: in edit mode (editTransitionSymbol, then confirmTransition) the
\* symbols are validated against every transition leaving `from`, the edited
\* one included; only when the validation passes is the symbol list of the
\* edited transition replaced by exactly the requested symbols, nothing else
\* changing; when it fails the edited transition keeps its symbols.
C28_EditReplacesSymbols ==
    [][\A input \in TransitionInputs :
          (ConfirmTransition(input) /\ EditRequest) => EditOutcome(input)]_vars

\* An edit gave the symbol b to a transition that leaves a state another
\* transition leaves with a.
C28_Witness ==
    /\ ~transitionModal
    /\ alertMsg = NoAlert
    /\ pendingTransitionData.editingTransition \in TransitionIds
    /\ TransitionById(pendingTransitionData.editingTransition).symbol
          = <<"b">>
    /\ \E i \in 1..Len(transitions) :
          /\ transitions[i].id # pendingTransitionData.editingTransition
          /\ transitions[i].from = pendingTransitionData.from
          /\ transitions[i].symbol = <<"a">>

(***************************************************************************)
(* The DFASimulator class of main.js, which extends no base class: the     *)
(* variables are its fields where its handlers are the ones that act.      *)
(***************************************************************************)
\* addState(x, y)
MainAddState ==
    LET ref == Len(stateObjs) + 1 IN
    /\ DialogClosed
    /\ Len(stateObjs) < MaxObjects
    /\ stateObjs' = Append(stateObjs,
                            [id |-> stateCounter, isFinal |-> FALSE,
                             label |-> <<"q", stateCounter>>])
    /\ stateCounter' = stateCounter + 1
    /\ states' = Append(states, ref)
    /\ selectedState' = ref
    /\ startState' = IF Len(states) + 1 = 1 THEN ref ELSE startState
    /\ alertMsg' = NoAlert
    /\ UNCHANGED <<transitions, selectedTransition, transitionSource, mode,
                   lastClickTarget, pendingTransitionData, transitionModal,
                   resultText, bulkVars, debugVars, nextTransitionId>>

\* addTransition(from, to): opens the symbol dialog
MainAddTransition(from, to) ==
    /\ DialogClosed
    /\ pendingTransitionData' =
          [from |-> from, to |-> to, editingTransition |-> NULL]
    /\ transitionModal' = TRUE
    /\ alertMsg' = NoAlert
    /\ UNCHANGED <<modelVars, selectedState, selectedTransition,
                   transitionSource, mode, lastClickTarget, resultText,
                   bulkVars, debugVars, nextTransitionId>>

\* editTransitionSymbol(transition): opens the symbol dialog on a transition
MainEditTransitionSymbol(tid) ==
    /\ DialogClosed
    /\ pendingTransitionData' =
          [from |-> TransitionById(tid).from, to |-> TransitionById(tid).to,
           editingTransition |-> tid]
    /\ transitionModal' = TRUE
    /\ alertMsg' = NoAlert
    /\ UNCHANGED <<modelVars, selectedState, selectedTransition,
                   transitionSource, mode, lastClickTarget, resultText,
                   bulkVars, debugVars, nextTransitionId>>

\* this.transitions.find(t => t.from.id === from.id && t.to.id === to.id):
\* its index, 0 for none.
MainExistingTransition(from, to) ==
    FindIndex(transitions,
              LAMBDA t : IdOf(t.from) = IdOf(from) /\ IdOf(t.to) = IdOf(to))

\* The duplicate found for a symbol among the transitions leaving `from`.
MainDuplicate(from, symbol) ==
    \E i \in 1..Len(transitions) :
        /\ IdOf(transitions[i].from) = IdOf(from)
        /\ Includes(SymbolsOf(transitions[i].symbol), symbol)

\* What confirmTransition tells the user: NoAlert when it goes on to change
\* the model.
MainConfirmOutcome(input) ==
    LET p == pendingTransitionData
        symbols == ParseSymbols(input)
        e == MainExistingTransition(p.from, p.to)
    IN IF Trim(input) = <<>> THEN AlertEnterSymbol
       ELSE IF symbols = <<>> THEN AlertValidSymbols
       ELSE IF \E i \in 1..Len(symbols) : Len(symbols[i]) # 1
       THEN AlertOneCharacter
       ELSE IF p.editingTransition # NULL THEN NoAlert
       ELSE IF e # 0
       THEN IF NewSymbols(SymbolsOf(transitions[e].symbol), symbols) = <<>>
            THEN AlertAllExist
            ELSE NoAlert
       ELSE IF \E i \in 1..Len(symbols) : MainDuplicate(p.from, symbols[i])
       THEN AlertDfaRule
       ELSE NoAlert

\* The transitions array after a confirmTransition that alerted nothing.
MainConfirmedTransitions(input) ==
    LET p == pendingTransitionData
        symbols == ParseSymbols(input)
        e == MainExistingTransition(p.from, p.to)
    IN IF p.editingTransition # NULL
       THEN [i \in 1..Len(transitions) |->
                IF transitions[i].id = p.editingTransition
                THEN [transitions[i] EXCEPT !.symbol = Join(symbols)]
                ELSE transitions[i]]
       ELSE IF e # 0
       THEN LET existingSymbols == SymbolsOf(transitions[e].symbol) IN
            [transitions EXCEPT
               ![e].symbol =
                   Join(existingSymbols
                           \o NewSymbols(existingSymbols, symbols))]
       ELSE LET r == IF IdOf(p.from) = IdOf(p.to) THEN 0
                     ELSE MainExistingTransition(p.to, p.from)
                new == [id |-> nextTransitionId, from |-> p.from,
                        to |-> p.to, symbol |-> Join(symbols),
                        offset |-> IF r # 0 THEN 0 - 10 ELSE 0]
            IN Append(IF r # 0 THEN [transitions EXCEPT ![r].offset = 10]
                      ELSE transitions,
                      new)

\* confirmTransition(), the dialog open on pendingTransitionData
MainConfirmTransition(input) ==
    /\ transitionModal
    /\ pendingTransitionData # NoPending
    /\ alertMsg' = MainConfirmOutcome(input)
    /\ IF MainConfirmOutcome(input) # NoAlert
       THEN UNCHANGED <<transitions, transitionModal, nextTransitionId>>
       ELSE /\ Len(MainConfirmedTransitions(input)) > Len(transitions)
                => nextTransitionId <= MaxTransitions
            /\ transitions' = MainConfirmedTransitions(input)
            /\ nextTransitionId' =
                  IF Len(MainConfirmedTransitions(input)) > Len(transitions)
                  THEN nextTransitionId + 1
                  ELSE nextTransitionId
            /\ transitionModal' = FALSE
    /\ UNCHANGED <<states, stateObjs, startState, stateCounter, selectedState,
                   selectedTransition, transitionSource, mode, lastClickTarget,
                   pendingTransitionData, resultText, bulkVars, debugVars>>

\* The texts typed into the symbol dialog of the class.
MainSymbolInputs ==
    { <<"a">>, <<"b">>, <<"a", ",", "b">>, <<"a", "b">>, <<>> }

\* The class of main.js: states are added, transitions created, merged and
\* edited.
NextMain ==
    \/ MainAddState
    \/ \E from \in Elems(states), to \in Elems(states) :
          MainAddTransition(from, to)
    \/ \E tid \in TransitionIds : MainEditTransitionSymbol(tid)
    \/ \E input \in MainSymbolInputs : MainConfirmTransition(input)

SpecMain == Init /\ [][NextMain]_vars

\* C29: in the DFASimulator class of main.js, after any sequence of addState
\* and confirmTransition (creating, merging or editing), no state has two
\* outgoing transitions carrying the same symbol.
C29_MainDeterministic ==
    \A s \in Elems(states), c \in {"a", "b"} :
        Cardinality({i \in 1..Len(transitions) :
                        /\ transitions[i].from = s
                        /\ Includes(SymbolsOf(transitions[i].symbol), <<c>>)})
            <= 1

=============================================================================
